---- MODULE Spec2Model ----
(***************************************************************************)
(* Model of h1st/model_repository/model_repository.py: the manifest SerDe  *)
(* (ModelSerDe) and the versioned repository protocol (ModelRepository).   *)
(***************************************************************************)
EXTENDS Integers, Sequences, FiniteSets, TLC

(***************************************************************************)
(* Bounds of the model.                                                    *)
(***************************************************************************)
\* longest list of submodels drawn as an input
MaxLen == 3
\* largest payload value of a sub-artifact / stats / metrics blob
MaxVal == 2
\* number of names (taken from KeyNames) used as keys of a named map
MaxKeys == 2
\* number of repository calls (persist, load, delete, download) in a run
MaxOps == 2

(***************************************************************************)
(* Python values.  A sub-artifact is a record [rt, val]: rt is its runtime *)
(* type, val its content (fitted parameters, weights).  A list is          *)
(* [rt |-> "list", items |-> <<...>>]; a dict keeps its insertion order:   *)
(* [rt |-> "dict", items |-> << [k |-> key, v |-> value], ... >>].         *)
(***************************************************************************)
PyNone == [rt |-> "None", val |-> 0]
Sk(v) == [rt |-> "sklearn", val |-> v]
Keras(v) == [rt |-> "keras", val |-> v]
Other(v) == [rt |-> "object", val |-> v]
PyList(s) == [rt |-> "list", items |-> s]
PyDict(s) == [rt |-> "dict", items |-> s]

\* Python truthiness, as used by `org_model or ...`
Truthy(x) ==
  CASE x.rt = "None" -> FALSE
    [] x.rt \in {"list", "dict"} -> Len(x.items) > 0
    [] OTHER -> TRUE

\* lookup d[k] in a dict value; DictHas is `k in d`
DictHas(d, k) == \E i \in 1..Len(d.items) : d.items[i].k = k
DictGet(d, k) == d.items[CHOOSE i \in 1..Len(d.items) : d.items[i].k = k].v
DictKeys(d) == {d.items[i].k : i \in 1..Len(d.items)}

\* d[k] = v on an items sequence: replace in place or append
DictSet(items, k, v) ==
  IF \E i \in 1..Len(items) : items[i].k = k
    THEN [i \in 1..Len(items) |-> IF items[i].k = k THEN [k |-> k, v |-> v]
                                                     ELSE items[i]]
    ELSE Append(items, [k |-> k, v |-> v])

(***************************************************************************)
(* Files.  A directory is a function from relative paths to file contents. *)
(***************************************************************************)
STATS_PATH == "stats.joblib"
METRICS_PATH == "metrics.joblib"
METAINFO_FILE == "METAINFO.yaml"

EmptyDir == [p \in {} |-> 0]
WriteFile(dir, path, content) ==
  [p \in DOMAIN dir \cup {path} |-> IF p = path THEN content ELSE dir[p]]

\* joblib.dump(d, path): pickles the value into one file
JoblibFile(v) == [fmt |-> "joblib", obj |-> v]
\* os.makedirs(...) and model.save_weights(...): only the weights are kept
DirEntry == [fmt |-> "dir"]
WeightsFile(m) == [fmt |-> "tf-weights", w |-> m.val]

\* names a caller may use as keys of a named map, in their sort order
KeyNames == << "a", "b", "c", "d" >>
KeyRank(k) == CHOOSE i \in 1..Len(KeyNames) : KeyNames[i] = k

\* the items of a mapping in sorted key order
RECURSIVE SortItems(_)
SortItems(items) ==
  IF items = << >> THEN << >>
  ELSE LET i == CHOOSE j \in 1..Len(items) :
                  \A l \in 1..Len(items) : KeyRank(items[j].k) <= KeyRank(items[l].k)
           rest == SubSeq(items, 1, i - 1) \o SubSeq(items, i + 1, Len(items))
       IN << items[i] >> \o SortItems(rest)

\* yaml.dump(meta_info, file): mappings are emitted with their keys sorted;
\* the top-level document is a mapping over a subset of metrics/models/stats
YamlDump(meta_info) ==
  [k \in DOMAIN meta_info |->
     IF meta_info[k].rt = "dict" THEN PyDict(SortItems(meta_info[k].items))
     ELSE meta_info[k]]
YamlFile(doc) == [fmt |-> "yaml", doc |-> YamlDump(doc)]
\* yaml.load(file, Loader=yaml.Loader)
YamlLoad(file) == file.doc

\* _serialize_dict(d, path, dict_file): the one file it writes
_serialize_dict(d, dict_file) == [path |-> dict_file, content |-> JoblibFile(d)]

\* the writes of a sequence of [path, content], applied in order
RECURSIVE ApplyWrites(_, _)
ApplyWrites(dir, ws) ==
  IF ws = <<>> THEN dir
  ELSE ApplyWrites(WriteFile(dir, ws[1].path, ws[1].content), Tail(ws))

W(path, content) == [path |-> path, content |-> content]

(***************************************************************************)
(* ModelSerDe                                                              *)
(***************************************************************************)
\* a _get_model_type without the `model is None` case
_get_model_type_no_none(model) ==
  CASE model.rt = "sklearn" -> "sklearn"
    [] model.rt = "keras" -> "tensorflow-keras"
    [] OTHER -> "NoType"

\* _get_model_type: "NoType" stands for the implicit `return None`
_get_model_type(model) ==
  CASE model.rt = "sklearn" -> "sklearn"
    [] model.rt = "keras" -> "tensorflow-keras"
    [] model.rt = "None" -> "custom"
    [] OTHER -> "NoType"

\* _serialize_single_model: the files it writes, and (model_type, model_path)
_serialize_single_model(model, model_name) ==
  LET model_type == _get_model_type(model) IN
  CASE model_type = "sklearn" ->
         [ok |-> TRUE, model_type |-> model_type,
          model_path |-> model_name \o ".joblib",
          writes |-> << W(model_name \o ".joblib", JoblibFile(model)) >>]
    [] model_type = "tensorflow-keras" ->
         [ok |-> TRUE, model_type |-> model_type, model_path |-> model_name,
          writes |-> << W(model_name, DirEntry),
                        W(model_name \o "/weights", WeightsFile(model)) >>]
    [] model_type = "custom" ->
         [ok |-> TRUE, model_type |-> model_type, model_path |-> model_name,
          writes |-> << >>]
    [] OTHER ->
         [ok |-> FALSE, model_type |-> model_type, model_path |-> "",
          writes |-> << >>]

Info(r) == [model_type |-> r.model_type, model_path |-> r.model_path]

\* a list loop that names every entry after the first index
RECURSIVE SerList_same_name(_, _, _, _)
SerList_same_name(items, i, infos, writes) ==
  IF i > Len(items) THEN [ok |-> TRUE, infos |-> infos, writes |-> writes]
  ELSE LET r == _serialize_single_model(items[i], "model_" \o ToString(0)) IN
       IF ~r.ok THEN [ok |-> FALSE, infos |-> infos, writes |-> writes]
       ELSE SerList_same_name(items, i + 1, Append(infos, Info(r)),
                              writes \o r.writes)

\* the loop of serialize over a list: entries so far, writes so far
RECURSIVE SerList(_, _, _, _)
SerList(items, i, infos, writes) ==
  IF i > Len(items) THEN [ok |-> TRUE, infos |-> infos, writes |-> writes]
  ELSE LET r == _serialize_single_model(items[i], "model_" \o ToString(i - 1)) IN
       IF ~r.ok THEN [ok |-> FALSE, infos |-> infos, writes |-> writes]
       ELSE SerList(items, i + 1, Append(infos, Info(r)), writes \o r.writes)

\* the loop of serialize over a dict, in insertion order
RECURSIVE SerDict(_, _, _, _)
SerDict(items, i, infos, writes) ==
  IF i > Len(items) THEN [ok |-> TRUE, infos |-> infos, writes |-> writes]
  ELSE LET r == _serialize_single_model(items[i].v, "model_" \o items[i].k) IN
       IF ~r.ok THEN [ok |-> FALSE, infos |-> infos, writes |-> writes]
       ELSE SerDict(items, i + 1, DictSet(infos, items[i].k, Info(r)),
                    writes \o r.writes)

\* hasattr(model, a) / model.a for a composite object [cls, attrs]
HasAttr(obj, a) == a \in DOMAIN obj.attrs
SetAttr(obj, a, v) ==
  [obj EXCEPT !.attrs = [x \in DOMAIN obj.attrs \cup {a} |->
                           IF x = a THEN v ELSE obj.attrs[x]]]

\* the `models` part of serialize (lines 93-108)
SerModels(obj) ==
  LET m == obj.attrs["model"] IN
  CASE m.rt = "list" ->
         LET r == SerList(m.items, 1, <<>>, <<>>) IN
         [ok |-> r.ok, models |-> PyList(r.infos), writes |-> r.writes]
    [] m.rt = "dict" ->
         LET r == SerDict(m.items, 1, <<>>, <<>>) IN
         [ok |-> r.ok, models |-> PyDict(r.infos), writes |-> r.writes]
    [] OTHER ->
         LET r == _serialize_single_model(m, "model") IN
         [ok |-> r.ok, models |-> PyList(<< Info(r) >>), writes |-> r.writes]

\* a serialize that writes the manifest whatever happened before
serialize_always_manifest(obj) ==
  LET sm == IF HasAttr(obj, "model") THEN SerModels(obj)
            ELSE [ok |-> TRUE, models |-> PyNone, writes |-> << >>]
      keys == IF HasAttr(obj, "model") THEN {"models"} ELSE {}
  IN [ok |-> sm.ok,
      err |-> IF sm.ok THEN "" ELSE "ValueError: Unsupported model!!!",
      writes |-> sm.writes
                   \o << W(METAINFO_FILE, YamlFile([k \in keys |-> sm.models])) >>]

\* serialize: the ordered file writes it performs; the manifest is the last
\* one and is only reached when no sub-artifact was rejected.
serialize(obj) ==
  LET w1 == IF HasAttr(obj, "metrics")
              THEN << _serialize_dict(obj.attrs["metrics"], METRICS_PATH) >>
              ELSE << >>
      w2 == IF HasAttr(obj, "stats")
              THEN << _serialize_dict(obj.attrs["stats"], STATS_PATH) >>
              ELSE << >>
      sm == IF HasAttr(obj, "model") THEN SerModels(obj)
            ELSE [ok |-> TRUE, models |-> PyNone, writes |-> << >>]
      keys == (IF HasAttr(obj, "metrics") THEN {"metrics"} ELSE {})
                \cup (IF HasAttr(obj, "stats") THEN {"stats"} ELSE {})
                \cup (IF HasAttr(obj, "model") THEN {"models"} ELSE {})
      meta_info == [k \in keys |->
                      CASE k = "metrics" -> [rt |-> "str", val |-> METRICS_PATH]
                        [] k = "stats" -> [rt |-> "str", val |-> STATS_PATH]
                        [] OTHER -> sm.models]
  IN IF sm.ok
       THEN [ok |-> TRUE, err |-> "",
             writes |-> w1 \o w2 \o sm.writes
                           \o << W(METAINFO_FILE, YamlFile(meta_info)) >>]
       ELSE [ok |-> FALSE, err |-> "ValueError: Unsupported model!!!",
             writes |-> w1 \o w2 \o sm.writes]

\* _deserialize_dict: joblib.load of a file that must exist
_deserialize_dict(dir, dict_file) ==
  IF dict_file \in DOMAIN dir /\ dir[dict_file].fmt = "joblib"
    THEN [ok |-> TRUE, err |-> "", val |-> dir[dict_file].obj]
    ELSE [ok |-> FALSE, err |-> "FileNotFoundError", val |-> 0]

\* a _deserialize_single_model that drops what joblib.load returned
_deserialize_single_model_keeps_old(model, dir, model_type, model_path) ==
  IF model_type = "custom" THEN [ok |-> TRUE, err |-> "", model |-> PyNone]
  ELSE [ok |-> TRUE, err |-> "", model |-> model]

\* _deserialize_single_model(model, path, model_type, model_path)
_deserialize_single_model(model, dir, model_type, model_path) ==
  CASE model_type = "sklearn" ->
         IF model_path \in DOMAIN dir /\ dir[model_path].fmt = "joblib"
           THEN [ok |-> TRUE, err |-> "", model |-> dir[model_path].obj]
           ELSE [ok |-> FALSE, err |-> "FileNotFoundError", model |-> model]
    [] model_type = "tensorflow-keras" ->
         LET wp == model_path \o "/weights" IN
         IF model.rt # "keras"
           THEN [ok |-> FALSE, err |-> "AttributeError: load_weights",
                 model |-> model]
         ELSE IF wp \in DOMAIN dir /\ dir[wp].fmt = "tf-weights"
           THEN [ok |-> TRUE, err |-> "", model |-> [model EXCEPT !.val = dir[wp].w]]
           ELSE [ok |-> FALSE, err |-> "NotFoundError", model |-> model]
    [] model_type = "custom" ->
         [ok |-> TRUE, err |-> "", model |-> PyNone]
    [] OTHER ->
         [ok |-> TRUE, err |-> "", model |-> model]

\* org_model[i] for a zero-based position i
IndexAt(org, i) ==
  CASE org.rt = "list" ->
         IF i + 1 <= Len(org.items)
           THEN [ok |-> TRUE, err |-> "", val |-> org.items[i + 1]]
           ELSE [ok |-> FALSE, err |-> "IndexError", val |-> PyNone]
    [] org.rt = "dict" -> [ok |-> FALSE, err |-> "KeyError", val |-> PyNone]
    [] OTHER -> [ok |-> FALSE, err |-> "TypeError", val |-> PyNone]

\* org_model[model_name] for a string key
KeyAt(org, k) ==
  CASE org.rt = "dict" ->
         IF DictHas(org, k)
           THEN [ok |-> TRUE, err |-> "", val |-> DictGet(org, k)]
           ELSE [ok |-> FALSE, err |-> "KeyError", val |-> PyNone]
    [] OTHER -> [ok |-> FALSE, err |-> "TypeError", val |-> PyNone]

\* the loop of deserialize over a list manifest (lines 149-152); acc is the
\* list assigned to model.model, which grows as the loop proceeds
RECURSIVE DesList(_, _, _, _, _)
DesList(infos, i, org, dir, acc) ==
  IF i > Len(infos) THEN [ok |-> TRUE, err |-> "", acc |-> acc]
  ELSE LET o == IndexAt(org, i - 1) IN
       IF ~o.ok THEN [ok |-> FALSE, err |-> o.err, acc |-> acc]
       ELSE LET r == _deserialize_single_model(o.val, dir, infos[i].model_type,
                                               infos[i].model_path) IN
            IF ~r.ok THEN [ok |-> FALSE, err |-> r.err, acc |-> acc]
            ELSE DesList(infos, i + 1, org, dir, Append(acc, r.model))

\* the loop of deserialize over a mapping manifest (lines 158-161)
RECURSIVE DesDict(_, _, _, _, _)
DesDict(infos, i, org, dir, acc) ==
  IF i > Len(infos) THEN [ok |-> TRUE, err |-> "", acc |-> acc]
  ELSE LET o == KeyAt(org, infos[i].k) IN
       IF ~o.ok THEN [ok |-> FALSE, err |-> o.err, acc |-> acc]
       ELSE LET r == _deserialize_single_model(o.val, dir, infos[i].v.model_type,
                                               infos[i].v.model_path) IN
            IF ~r.ok THEN [ok |-> FALSE, err |-> r.err, acc |-> acc]
            ELSE DesDict(infos, i + 1, org, dir, DictSet(acc, infos[i].k, r.model))

\* a list branch that takes the existing submodels as they are
OrNoneList_as_is(org, n) == org

\* org_model or [None for _ in range(len(model_infos))]
OrNoneList(org, n) ==
  IF Truthy(org) THEN org ELSE PyList([j \in 1..n |-> PyNone])
\* org_model or {k: None for k in model_infos.keys()}
OrNoneDict(org, infos) ==
  IF Truthy(org) THEN org
  ELSE PyDict([j \in 1..Len(infos) |-> [k |-> infos[j].k, v |-> PyNone]])

\* the `models` branch of deserialize (lines 134-163)
DesModels(obj, dir, model_infos) ==
  LET org_model == IF HasAttr(obj, "model") THEN obj.attrs["model"] ELSE PyNone IN
  CASE model_infos.rt = "list" ->
         IF Len(model_infos.items) = 1
           THEN LET r == _deserialize_single_model(org_model, dir,
                           model_infos.items[1].model_type,
                           model_infos.items[1].model_path) IN
                IF r.ok THEN [ok |-> TRUE, err |-> "",
                              obj |-> SetAttr(obj, "model", r.model)]
                ELSE [ok |-> FALSE, err |-> r.err, obj |-> obj]
           ELSE LET r == DesList(model_infos.items, 1,
                                 OrNoneList(org_model, Len(model_infos.items)),
                                 dir, << >>) IN
                [ok |-> r.ok, err |-> r.err,
                 obj |-> SetAttr(obj, "model", PyList(r.acc))]
    [] model_infos.rt = "dict" ->
         LET r == DesDict(model_infos.items, 1,
                          OrNoneDict(org_model, model_infos.items), dir, << >>) IN
         [ok |-> r.ok, err |-> r.err,
          obj |-> SetAttr(obj, "model", PyDict(r.acc))]
    [] OTHER ->
         [ok |-> FALSE, err |-> "ValueError: Not a valid H1ST Model METAINFO file!",
          obj |-> obj]

\* deserialize(model, path): the object as the call leaves it, also when it
\* raises part-way
deserialize(obj, dir) ==
  IF ~(METAINFO_FILE \in DOMAIN dir /\ dir[METAINFO_FILE].fmt = "yaml")
    THEN [ok |-> FALSE, err |-> "FileNotFoundError", obj |-> obj]
  ELSE
  LET meta_info == YamlLoad(dir[METAINFO_FILE])
      me == IF "metrics" \in DOMAIN meta_info
              THEN _deserialize_dict(dir, METRICS_PATH)
              ELSE [ok |-> TRUE, err |-> "", val |-> 0]
      o1 == IF "metrics" \in DOMAIN meta_info /\ me.ok
              THEN SetAttr(obj, "metrics", me.val) ELSE obj
      st == IF "stats" \in DOMAIN meta_info
              THEN _deserialize_dict(dir, STATS_PATH)
              ELSE [ok |-> TRUE, err |-> "", val |-> 0]
      o2 == IF "stats" \in DOMAIN meta_info /\ st.ok
              THEN SetAttr(o1, "stats", st.val) ELSE o1
  IN IF ~me.ok THEN [ok |-> FALSE, err |-> me.err, obj |-> obj]
     ELSE IF ~st.ok THEN [ok |-> FALSE, err |-> st.err, obj |-> o1]
     ELSE IF "models" \in DOMAIN meta_info
       THEN DesModels(o2, dir, meta_info["models"])
       ELSE [ok |-> TRUE, err |-> "", obj |-> o2]

(***************************************************************************)
(* Archiver                                                                *)
(***************************************************************************)
\* _tar_create(target, source): the whole directory tree in one blob
_tar_create(dir) == [fmt |-> "tar.gz", files |-> dir]
\* _tar_extract(source, target): fails on bytes that are not an archive
IsArchive(bytes) == bytes.fmt = "tar.gz"
_tar_extract(bytes, target) ==
  [p \in DOMAIN target \cup DOMAIN bytes.files |->
     IF p \in DOMAIN bytes.files THEN bytes.files[p] ELSE target[p]]

(***************************************************************************)
(* Inputs: composite models                                                *)
(***************************************************************************)
Vals == 1..MaxVal
\* sub-artifacts a caller may hold: the absence value, the two known kinds
\* and an object of no registered kind
SubArtifacts == {PyNone} \cup {Sk(v) : v \in Vals} \cup {Keras(v) : v \in Vals}
                  \cup {Other(1)}
SeqsUpTo(S, n) == UNION {[1..k -> S] : k \in 0..n}
Keys == {KeyNames[i] : i \in 1..MaxKeys}
\* insertion orders of distinct keys
KeySeqs == {ks \in SeqsUpTo(Keys, MaxKeys) :
              \A i, j \in 1..Len(ks) : i # j => ks[i] # ks[j]}
DictsOver(S) ==
  {PyDict([i \in 1..Len(ks) |-> [k |-> ks[i], v |-> vs[i]]]) :
     <<ks, vs>> \in {p \in KeySeqs \X SeqsUpTo(S, MaxKeys) : Len(p[1]) = Len(p[2])}}
ListsOver(S) == {PyList(s) : s \in SeqsUpTo(S, MaxLen)}

\* a composite object: its class and the attributes it has
Obj(cls, attrs) == [cls |-> cls, attrs |-> attrs]
NoAttrs == [a \in {} |-> 0]
\* the attribute sets with part a absent or bound to one of vs
WithPart(A, a, vs) ==
  A \cup {[x \in DOMAIN f \cup {a} |-> IF x = a THEN v ELSE f[x]] :
            <<f, v>> \in A \X vs}

\* models to persist: every shape of submodels, stats and metrics optional
SubmodelShapes == SubArtifacts \cup ListsOver(SubArtifacts) \cup DictsOver(SubArtifacts)
SourceAttrs ==
  WithPart(WithPart(WithPart({NoAttrs}, "metrics", {1}), "stats", Vals),
           "model", SubmodelShapes)
\* instances to load into: no submodel state, or a structure built by the
\* constructor (untrained: payload 0)
TargetShapes ==
  {PyNone, Keras(0), Sk(0)} \cup ListsOver({Keras(0)})
    \cup {d \in DictsOver({Keras(0)}) : d.items = SortItems(d.items)}
TargetAttrs ==
  WithPart({NoAttrs, [a \in {"metrics", "stats"} |-> 0]}, "model", TargetShapes)

(***************************************************************************)
(* State                                                                   *)
(***************************************************************************)
VARIABLES
  sd_pc,    \* SerDe round trip: "init", "serialized", "rejected", "archived",
            \* "loaded", "load_failed"
  sd_src,   \* the composite handed to serialize
  sd_dst,   \* the composite handed to deserialize
  sd_dir,   \* the directory serialize writes into / deserialize reads from
  sd_blob,  \* the archive of the directory
  sd_err,   \* the exception raised, "" when none
  namespace, \* self._NAMESPACE of the repository
  store,    \* the backing store: key -> bytes or small object
  inst,     \* the model objects of the caller: instance -> [cls, attrs]
  pc,       \* per caller: where it is in the call it runs
  call,     \* per caller: the locals of that call (version, tmpdir, f, ...)
  dirs,     \* scratch directories that exist: name -> [by, files]
  ntmp,     \* number of names tempfile.mkdtemp has handed out
  nulid,    \* number of identifiers ulid.new has handed out
  atexit,   \* directories whose removal is registered with atexit
  outdir,   \* the caller's target folder of download
  nops,     \* calls started so far
  exited,   \* the interpreter has quit
  uploaded  \* history: <<class, version>> -> the parts of the model whose
            \* archive was last stored under that version

sdVars == << sd_pc, sd_src, sd_dst, sd_dir, sd_blob, sd_err >>
repoVars == << namespace, store, inst, pc, call, dirs, ntmp, nulid, atexit,
               outdir, nops, exited, uploaded >>
vars == << sd_pc, sd_src, sd_dst, sd_dir, sd_blob, sd_err,
           namespace, store, inst, pc, call, dirs, ntmp, nulid, atexit,
           outdir, nops, exited, uploaded >>

NoBlob == [fmt |-> "none"]

(***************************************************************************)
(* ModelRepository: keys                                                   *)
(***************************************************************************)
SEP == "::"
LATEST == "latest"
\* Python's None as a version argument
NONE == "<None>"

\* the model classes of the caller and their instances
Classes == {"C", "D"}
Insts == {"m1", "m2", "m3"}
ClassOfInst(m) == IF m = "m3" THEN "D" ELSE "C"
\* a class object; an instance is a record [cls, attrs]
ClassObj(c) == [isType |-> TRUE, module |-> "app.models", name |-> c]
IsType(model) == "isType" \in DOMAIN model

\* a _get_key that leaves the version out of the key
_get_key_drops_version(ns, model, version) ==
  LET model_class == IF IsType(model) THEN model ELSE ClassObj(model.cls)
      key == model_class.module \o "." \o model_class.name \o SEP \o LATEST
  IN IF ns # "" THEN ns \o SEP \o key ELSE key

\* a _get_key that also reads the version recorded on the instance
_get_key_of_instance(ns, model, version) ==
  LET name == IF IsType(model) THEN model.module \o "." \o model.name
              ELSE "app.models." \o model.cls
                     \o (IF HasAttr(model, "version") THEN "@" \o model.attrs["version"]
                         ELSE "")
      key == name \o SEP \o version
  IN IF ns # "" THEN ns \o SEP \o key ELSE key

\* _get_key(model, version) of a repository whose _NAMESPACE is ns
_get_key(ns, model, version) ==
  LET model_class == IF IsType(model) THEN model ELSE ClassObj(model.cls)
      model_name == model_class.module \o "." \o model_class.name
      key == model_name \o SEP \o version
  IN IF ns # "" THEN ns \o SEP \o key ELSE key

(***************************************************************************)
(* The backing store, as the Blob Store contract describes it              *)
(***************************************************************************)
ObjEntry(value) == [fmt |-> "obj", obj |-> value]
Put(st, key, entry) ==
  [k \in DOMAIN st \cup {key} |-> IF k = key THEN entry ELSE st[k]]
set_bytes(st, key, bytes) == Put(st, key, bytes)
set_obj(st, key, value) == Put(st, key, ObjEntry(value))
get_bytes(st, key) ==
  IF key \in DOMAIN st THEN [ok |-> TRUE, val |-> st[key]]
  ELSE [ok |-> FALSE, val |-> NoBlob]
get_obj(st, key) ==
  IF key \in DOMAIN st /\ st[key].fmt = "obj"
    THEN [ok |-> TRUE, val |-> st[key].obj]
    ELSE [ok |-> FALSE, val |-> ""]
delete(st, key) == [k \in DOMAIN st \ {key} |-> st[k]]
EmptyStore == [k \in {} |-> NoBlob]

(***************************************************************************)
(* ModelRepository: calls                                                  *)
(***************************************************************************)
Procs == {1, 2}
NoCall ==
  [op |-> "none", arg |-> "", version |-> "", ver |-> "", tmpdir |-> 0,
   f |-> NoBlob, err |-> "", log |-> << >>]
NewCall(op, arg, version) ==
  [op |-> op, arg |-> arg, version |-> version, ver |-> version, tmpdir |-> 0,
   f |-> NoBlob, err |-> "", log |-> << >>]
\* one call to the storage object
Logged(c, api, key) == [c EXCEPT !.log = Append(@, [api |-> api, key |-> key])]

\* the value a call passes as `model`: an instance, or a class
ArgValue(a) == IF a \in Insts THEN inst[a] ELSE ClassObj(a)
\* the key the call of p computes for a version
KeyFor(p, version) == _get_key(namespace, ArgValue(call[p].arg), version)

\* version or str(ulid.new())
NewUlid == "ulid" \o ToString(nulid + 1)
DefaultVersion(version) == IF version \in {NONE, ""} THEN NewUlid ELSE version

\* versions a caller passes explicitly
VersionArgs == {"v1", "v2", LATEST}
\* ... or reads back from the model it holds
VersionsOf(a) ==
  VersionArgs \cup (IF a \in Insts /\ HasAttr(inst[a], "version")
                      THEN {inst[a].attrs["version"]} ELSE {})

CanCall(p) == pc[p] \in {"idle", "done"} /\ ~exited /\ nops < MaxOps

\* the parts of a model that persistence covers
Parts(obj) == [a \in DOMAIN obj.attrs \cap {"stats", "metrics", "model"} |-> obj.attrs[a]]
ClassOfArg(a) == IF a \in Insts THEN inst[a].cls ELSE a
Forget(u, k) == [x \in DOMAIN u \ {k} |-> u[x]]

\* tempfile.mkdtemp(): a new, empty directory under a name not in use
FreshName == CHOOSE d \in 1..(Cardinality(DOMAIN dirs) + 1) : d \notin DOMAIN dirs
Mkdtemp(by) ==
  [d \in DOMAIN dirs \cup {FreshName} |->
     IF d = FreshName THEN [by |-> by, files |-> EmptyDir] ELSE dirs[d]]
\* dir_util.remove_tree(tmpdir)
remove_tree(ds, d) == [x \in DOMAIN ds \ {d} |-> ds[x]]

\* a persist that cleans up only after the with-block ended normally
PersistExit_cleanup_on_success(failed) == IF failed THEN "done" ELSE "p_finally"

\* where persist goes when its with-block ends, by exception or not: the
\* finally clause
PersistExit(failed) == "p_finally"

\* a delete without the assertion on the version
ReservedVersion_unchecked(version) == FALSE

\* assert version != 'latest' (line 280): the versions it rejects
ReservedVersion(version) == version = LATEST

\* persist(model, version): lines 203-206
PersistCall(p, m, version) ==
  /\ CanCall(p)
  /\ nops' = nops + 1
  /\ nulid' = IF version \in {NONE, ""} THEN nulid + 1 ELSE nulid
  /\ \E ok \in BOOLEAN :
       IF ok
         THEN /\ dirs' = Mkdtemp("persist")
              /\ ntmp' = ntmp + 1
              /\ call' = [call EXCEPT ![p] =
                            [NewCall("persist", m, version) EXCEPT
                               !.ver = DefaultVersion(version), !.tmpdir = FreshName]]
              /\ pc' = [pc EXCEPT ![p] = "p_serialize"]
         ELSE /\ UNCHANGED << dirs, ntmp >>
              /\ call' = [call EXCEPT ![p] =
                            [NewCall("persist", m, version) EXCEPT
                               !.ver = DefaultVersion(version), !.err = "OSError"]]
              /\ pc' = [pc EXCEPT ![p] = PersistExit(TRUE)]
  /\ UNCHANGED sdVars
  /\ UNCHANGED << namespace, store, inst, atexit, outdir, exited, uploaded >>

\* lines 207-209: the temporary file and self._serder.serialize(model, tmpdir);
\* the file system may fail at any of the writes
PersistSerialize(p) ==
  /\ pc[p] = "p_serialize"
  /\ LET c == call[p]
         r == serialize(inst[c.arg])
     IN \E n \in 0..Len(r.writes) :
          /\ dirs' = [dirs EXCEPT ![c.tmpdir].files =
                        ApplyWrites(EmptyDir, SubSeq(r.writes, 1, n))]
          /\ IF n < Len(r.writes)
               THEN /\ call' = [call EXCEPT ![p].err = "OSError"]
                    /\ pc' = [pc EXCEPT ![p] = PersistExit(TRUE)]
             ELSE IF ~r.ok
               THEN /\ call' = [call EXCEPT ![p].err = r.err]
                    /\ pc' = [pc EXCEPT ![p] = PersistExit(TRUE)]
             ELSE /\ call' = call
                  /\ pc' = [pc EXCEPT ![p] = "p_tar"]
  /\ UNCHANGED sdVars
  /\ UNCHANGED << namespace, store, inst, ntmp, nulid, atexit, outdir, nops,
                  exited, uploaded >>

\* lines 210-212: _tar_create(f.name, tmpdir)
PersistTar(p) ==
  /\ pc[p] = "p_tar"
  /\ \E ok \in BOOLEAN :
       IF ok
         THEN /\ call' = [call EXCEPT ![p].f = _tar_create(dirs[call[p].tmpdir].files)]
              /\ pc' = [pc EXCEPT ![p] = "p_set_bytes"]
         ELSE /\ call' = [call EXCEPT ![p].err = "OSError"]
              /\ pc' = [pc EXCEPT ![p] = PersistExit(TRUE)]
  /\ UNCHANGED sdVars
  /\ UNCHANGED << namespace, store, inst, dirs, ntmp, nulid, atexit, outdir,
                  nops, exited, uploaded >>

\* a persist that goes on to the alias update when its upload failed
PersistSetBytes_goes_on(p) ==
  /\ pc[p] = "p_set_bytes"
  /\ LET c == call[p]
         key == KeyFor(p, c.ver)
     IN \E ok \in BOOLEAN :
          /\ call' = [call EXCEPT ![p] = Logged(c, "set_bytes", key)]
          /\ pc' = [pc EXCEPT ![p] = "p_set_obj"]
          /\ IF ok
               THEN /\ store' = set_bytes(store, key, c.f)
                    /\ uploaded' = Put(uploaded, << inst[c.arg].cls, c.ver >>,
                                       Parts(inst[c.arg]))
               ELSE UNCHANGED << store, uploaded >>
  /\ UNCHANGED sdVars
  /\ UNCHANGED << namespace, inst, dirs, ntmp, nulid, atexit, outdir, nops, exited >>

\* a persist whose upload step writes the alias along with the blob
PersistSetBytes_with_alias(p) ==
  /\ pc[p] = "p_set_bytes"
  /\ LET c == call[p]
         key == KeyFor(p, c.ver)
     IN /\ store' = set_obj(set_bytes(store, key, c.f), KeyFor(p, LATEST), c.ver)
        /\ call' = [call EXCEPT ![p] = Logged(c, "set_bytes", key)]
        /\ uploaded' = Put(uploaded, << inst[c.arg].cls, c.ver >>, Parts(inst[c.arg]))
        /\ pc' = [pc EXCEPT ![p] = "p_set_obj"]
  /\ UNCHANGED sdVars
  /\ UNCHANGED << namespace, inst, dirs, ntmp, nulid, atexit, outdir, nops, exited >>

\* lines 214-217: self._storage.set_bytes(self._get_key(model, version), f.read())
PersistSetBytes(p) ==
  /\ pc[p] = "p_set_bytes"
  /\ LET c == call[p]
         key == KeyFor(p, c.ver)
     IN \E ok \in BOOLEAN :
          IF ok
            THEN /\ store' = set_bytes(store, key, c.f)
                 /\ call' = [call EXCEPT ![p] = Logged(c, "set_bytes", key)]
                 /\ uploaded' = Put(uploaded, << inst[c.arg].cls, c.ver >>,
                                    Parts(inst[c.arg]))
                 /\ pc' = [pc EXCEPT ![p] = "p_set_obj"]
            ELSE /\ UNCHANGED << store, uploaded >>
                 /\ call' = [call EXCEPT ![p] =
                               [Logged(c, "set_bytes", key) EXCEPT
                                  !.err = "BackingStoreFailure"]]
                 /\ pc' = [pc EXCEPT ![p] = PersistExit(TRUE)]
  /\ UNCHANGED sdVars
  /\ UNCHANGED << namespace, inst, dirs, ntmp, nulid, atexit, outdir, nops, exited >>

\* a persist that records the version on the model whether or not the
\* alias update succeeded
PersistSetObj_records_anyway(p) ==
  /\ pc[p] = "p_set_obj"
  /\ LET c == call[p]
         key == KeyFor(p, LATEST)
     IN /\ inst' = [inst EXCEPT ![c.arg] = SetAttr(@, "version", c.ver)]
        /\ \E ok \in BOOLEAN :
             IF ok
               THEN /\ store' = set_obj(store, key, c.ver)
                    /\ call' = [call EXCEPT ![p] = Logged(c, "set_obj", key)]
                    /\ uploaded' = IF c.ver = LATEST
                                     THEN Forget(uploaded, << inst[c.arg].cls, LATEST >>)
                                     ELSE uploaded
                    /\ pc' = [pc EXCEPT ![p] = PersistExit(FALSE)]
               ELSE /\ UNCHANGED << store, uploaded >>
                    /\ call' = [call EXCEPT ![p] =
                                  [Logged(c, "set_obj", key) EXCEPT
                                     !.err = "BackingStoreFailure"]]
                    /\ pc' = [pc EXCEPT ![p] = PersistExit(TRUE)]
  /\ UNCHANGED sdVars
  /\ UNCHANGED << namespace, dirs, ntmp, nulid, atexit, outdir, nops, exited >>

\* lines 219-224: self._storage.set_obj(self._get_key(model, 'latest'), version)
\* and model.version = version
PersistSetObj(p) ==
  /\ pc[p] = "p_set_obj"
  /\ LET c == call[p]
         key == KeyFor(p, LATEST)
     IN \E ok \in BOOLEAN :
          IF ok
            THEN /\ store' = set_obj(store, key, c.ver)
                 /\ call' = [call EXCEPT ![p] = Logged(c, "set_obj", key)]
                 /\ inst' = [inst EXCEPT ![c.arg] = SetAttr(@, "version", c.ver)]
                 /\ uploaded' = IF c.ver = LATEST
                                  THEN Forget(uploaded, << inst[c.arg].cls, LATEST >>)
                                  ELSE uploaded
                 /\ pc' = [pc EXCEPT ![p] = PersistExit(FALSE)]
            ELSE /\ UNCHANGED << store, inst, uploaded >>
                 /\ call' = [call EXCEPT ![p] =
                               [Logged(c, "set_obj", key) EXCEPT
                                  !.err = "BackingStoreFailure"]]
                 /\ pc' = [pc EXCEPT ![p] = PersistExit(TRUE)]
  /\ UNCHANGED sdVars
  /\ UNCHANGED << namespace, dirs, ntmp, nulid, atexit, outdir, nops, exited >>

\* lines 225-228: finally: dir_util.remove_tree(tmpdir); return version.
\* tmpdir is unbound when mkdtemp itself raised.
PersistFinally(p) ==
  /\ pc[p] = "p_finally"
  /\ IF call[p].tmpdir = 0
       THEN /\ call' = [call EXCEPT ![p].err = "UnboundLocalError", ![p].f = NoBlob]
            /\ dirs' = dirs
       ELSE /\ call' = [call EXCEPT ![p].f = NoBlob]
            /\ dirs' = remove_tree(dirs, call[p].tmpdir)
  /\ pc' = [pc EXCEPT ![p] = "done"]
  /\ UNCHANGED sdVars
  /\ UNCHANGED << namespace, store, inst, ntmp, nulid, atexit, outdir, nops,
                  exited, uploaded >>

\* the try block of load opens with tmpdir = tempfile.mkdtemp() (lines 243-244)
LoadEnterTry(p, c, ok) ==
  IF ok
    THEN /\ dirs' = Mkdtemp("load")
         /\ ntmp' = ntmp + 1
         /\ call' = [call EXCEPT ![p] = [c EXCEPT !.tmpdir = FreshName]]
         /\ pc' = [pc EXCEPT ![p] = "l_get_bytes"]
    ELSE /\ UNCHANGED << dirs, ntmp >>
         /\ call' = [call EXCEPT ![p] = [c EXCEPT !.err = "OSError"]]
         /\ pc' = [pc EXCEPT ![p] = "l_finally"]

\* load(model, version): line 238
LoadCall(p, m, version) ==
  /\ CanCall(p)
  /\ nops' = nops + 1
  /\ IF version = NONE
       THEN /\ call' = [call EXCEPT ![p] = NewCall("load", m, version)]
            /\ pc' = [pc EXCEPT ![p] = "l_get_obj"]
            /\ UNCHANGED << dirs, ntmp >>
       ELSE \E ok \in BOOLEAN : LoadEnterTry(p, NewCall("load", m, version), ok)
  /\ UNCHANGED sdVars
  /\ UNCHANGED << namespace, store, inst, nulid, atexit, outdir, exited, uploaded >>

\* a load that goes on to the fetch when the alias lookup found nothing
LoadGetObj_goes_on(p) ==
  /\ pc[p] = "l_get_obj"
  /\ LET key == KeyFor(p, LATEST)
         c == Logged(call[p], "get_obj", key)
         r == get_obj(store, key)
     IN \E ok \in BOOLEAN :
          LoadEnterTry(p, [c EXCEPT !.ver = IF r.ok THEN r.val ELSE NONE], ok)
  /\ UNCHANGED sdVars
  /\ UNCHANGED << namespace, store, inst, nulid, atexit, outdir, nops, exited,
                  uploaded >>

\* line 239: version = self._storage.get_obj(self._get_key(model, 'latest'));
\* a failure propagates from outside the try block
LoadGetObj(p) ==
  /\ pc[p] = "l_get_obj"
  /\ LET key == KeyFor(p, LATEST)
         c == Logged(call[p], "get_obj", key)
         r == get_obj(store, key)
     IN \E io \in BOOLEAN, ok \in BOOLEAN :
          IF r.ok /\ io
            THEN LoadEnterTry(p, [c EXCEPT !.ver = r.val], ok)
            ELSE /\ ok
                 /\ call' = [call EXCEPT ![p] =
                               [c EXCEPT !.err = IF r.ok THEN "BackingStoreFailure"
                                                 ELSE "NoVersionFound"]]
                 /\ pc' = [pc EXCEPT ![p] = "done"]
                 /\ UNCHANGED << dirs, ntmp >>
  /\ UNCHANGED sdVars
  /\ UNCHANGED << namespace, store, inst, nulid, atexit, outdir, nops, exited,
                  uploaded >>

\* lines 245-250: f.write(self._storage.get_bytes(self._get_key(model, version)))
LoadGetBytes(p) ==
  /\ pc[p] = "l_get_bytes"
  /\ LET key == KeyFor(p, call[p].ver)
         c == Logged(call[p], "get_bytes", key)
         r == get_bytes(store, key)
     IN \E io \in BOOLEAN :
          IF r.ok /\ io
            THEN /\ call' = [call EXCEPT ![p] = [c EXCEPT !.f = r.val]]
                 /\ pc' = [pc EXCEPT ![p] = "l_deserialize"]
            ELSE /\ call' = [call EXCEPT ![p] =
                               [c EXCEPT !.err = IF r.ok THEN "BackingStoreFailure"
                                                 ELSE "NotFound"]]
                 /\ pc' = [pc EXCEPT ![p] = "l_finally"]
  /\ UNCHANGED sdVars
  /\ UNCHANGED << namespace, store, inst, dirs, ntmp, nulid, atexit, outdir,
                  nops, exited, uploaded >>

\* lines 252-254: _tar_extract(f.name, tmpdir); self._serder.deserialize(model,
\* tmpdir); model.version = version
LoadDeserialize(p) ==
  /\ pc[p] = "l_deserialize"
  /\ LET c == call[p] IN
     IF ~IsArchive(c.f)
       THEN /\ call' = [call EXCEPT ![p].err = "ReadError"]
            /\ UNCHANGED << dirs, inst >>
       ELSE LET files == _tar_extract(c.f, dirs[c.tmpdir].files)
                r == deserialize(inst[c.arg], files)
            IN /\ dirs' = [dirs EXCEPT ![c.tmpdir].files = files]
               /\ call' = [call EXCEPT ![p].err = r.err]
               /\ inst' = [inst EXCEPT ![c.arg] =
                             IF r.ok THEN SetAttr(r.obj, "version", c.ver) ELSE r.obj]
  /\ pc' = [pc EXCEPT ![p] = "l_finally"]
  /\ UNCHANGED sdVars
  /\ UNCHANGED << namespace, store, ntmp, nulid, atexit, outdir, nops, exited,
                  uploaded >>

\* a load that registers the cleanup only when nothing was raised
LoadFinally_on_success(p) ==
  /\ pc[p] = "l_finally"
  /\ IF call[p].tmpdir = 0
       THEN /\ call' = [call EXCEPT ![p].err = "UnboundLocalError", ![p].f = NoBlob]
            /\ atexit' = atexit
       ELSE /\ call' = [call EXCEPT ![p].f = NoBlob]
            /\ atexit' = IF call[p].err = "" THEN atexit \cup {call[p].tmpdir}
                          ELSE atexit
  /\ pc' = [pc EXCEPT ![p] = "done"]
  /\ UNCHANGED sdVars
  /\ UNCHANGED << namespace, store, inst, dirs, ntmp, nulid, outdir, nops,
                  exited, uploaded >>

\* lines 255-270: finally: atexit.register(clean_tmpdir, tmpdir=tmpdir)
LoadFinally(p) ==
  /\ pc[p] = "l_finally"
  /\ IF call[p].tmpdir = 0
       THEN /\ call' = [call EXCEPT ![p].err = "UnboundLocalError", ![p].f = NoBlob]
            /\ atexit' = atexit
       ELSE /\ call' = [call EXCEPT ![p].f = NoBlob]
            /\ atexit' = atexit \cup {call[p].tmpdir}
  /\ pc' = [pc EXCEPT ![p] = "done"]
  /\ UNCHANGED sdVars
  /\ UNCHANGED << namespace, store, inst, dirs, ntmp, nulid, outdir, nops,
                  exited, uploaded >>

\* a delete that takes the alias away along with the blob
Delete_with_alias(p, a, version) ==
  /\ CanCall(p)
  /\ nops' = nops + 1
  /\ pc' = [pc EXCEPT ![p] = "done"]
  /\ LET c == NewCall("delete", a, version)
         key == _get_key(namespace, ArgValue(a), version)
     IN IF ReservedVersion(version)
          THEN /\ call' = [call EXCEPT ![p] = [c EXCEPT !.err = "AssertionError"]]
               /\ UNCHANGED << store, uploaded >>
          ELSE /\ store' = delete(delete(store, key),
                                  _get_key(namespace, ArgValue(a), LATEST))
               /\ uploaded' = Forget(uploaded, << ClassOfArg(a), version >>)
               /\ call' = [call EXCEPT ![p] = Logged(c, "delete", key)]
  /\ UNCHANGED sdVars
  /\ UNCHANGED << namespace, inst, dirs, ntmp, nulid, atexit, outdir, exited >>

\* delete(model, version): lines 280-281
Delete(p, a, version) ==
  /\ CanCall(p)
  /\ nops' = nops + 1
  /\ pc' = [pc EXCEPT ![p] = "done"]
  /\ LET c == NewCall("delete", a, version)
         key == _get_key(namespace, ArgValue(a), version)
     IN IF ReservedVersion(version)
          THEN /\ call' = [call EXCEPT ![p] = [c EXCEPT !.err = "AssertionError"]]
               /\ UNCHANGED << store, uploaded >>
          ELSE \E io \in BOOLEAN :
                 IF io
                   THEN /\ store' = delete(store, key)
                        /\ uploaded' = Forget(uploaded, << ClassOfArg(a), version >>)
                        /\ call' = [call EXCEPT ![p] = Logged(c, "delete", key)]
                   ELSE /\ UNCHANGED << store, uploaded >>
                        /\ call' = [call EXCEPT ![p] =
                                      [Logged(c, "delete", key) EXCEPT
                                         !.err = "BackingStoreFailure"]]
  /\ UNCHANGED sdVars
  /\ UNCHANGED << namespace, inst, dirs, ntmp, nulid, atexit, outdir, exited >>

\* download(model, version, path): lines 291-300
Download(p, a, version) ==
  /\ CanCall(p)
  /\ nops' = nops + 1
  /\ pc' = [pc EXCEPT ![p] = "done"]
  /\ LET key == _get_key(namespace, ArgValue(a), version)
         c == Logged(NewCall("download", a, version), "get_bytes", key)
         r == get_bytes(store, key)
     IN \E io \in BOOLEAN :
          IF r.ok /\ io /\ IsArchive(r.val)
            THEN /\ outdir' = _tar_extract(r.val, outdir)
                 /\ call' = [call EXCEPT ![p] = c]
            ELSE /\ outdir' = outdir
                 /\ call' = [call EXCEPT ![p] =
                               [c EXCEPT !.err = IF ~r.ok THEN "NotFound"
                                                 ELSE IF ~io THEN "BackingStoreFailure"
                                                 ELSE "ReadError"]]
  /\ UNCHANGED sdVars
  /\ UNCHANGED << namespace, store, inst, dirs, ntmp, nulid, atexit, exited,
                  uploaded >>

\* the interpreter quits: the functions registered with atexit run
Exit ==
  /\ ~exited
  /\ \A p \in Procs : pc[p] \in {"idle", "done"}
  /\ exited' = TRUE
  /\ dirs' = [d \in DOMAIN dirs \ atexit |-> dirs[d]]
  /\ UNCHANGED sdVars
  /\ UNCHANGED << namespace, store, inst, pc, call, ntmp, nulid, atexit, outdir,
                  nops, uploaded >>

\* the models the caller holds when the run starts
A1 == [model |-> Sk(1), stats |-> 1]
A2 == [model |-> Sk(2)]
A3 == [model |-> Keras(1)]
A4 == [model |-> Other(1), metrics |-> 1]
InitInsts ==
  {[m \in Insts |-> CASE m = "m1" -> Obj("C", A1)
                      [] m = "m2" -> Obj("C", b)
                      [] OTHER -> Obj("D", A2)] : b \in {A3, A4}}

\* what the storage holds when the repository is constructed: nothing, or
\* what an earlier run left by persist(model, "v1") of a model of class C
ArchiveOf(obj) == _tar_create(ApplyWrites(EmptyDir, serialize(obj).writes))
EarlierModel == Obj("C", [model |-> Sk(2), stats |-> 2])
StoreAfterEarlierRun(ns) ==
  set_obj(set_bytes(EmptyStore, _get_key(ns, EarlierModel, "v1"), ArchiveOf(EarlierModel)),
          _get_key(ns, EarlierModel, LATEST), "v1")

\* __init__ (lines 180-191): no namespace for a location string, the shared
\* "_models" namespace for a storage handle or the default storage
RepoStart ==
  /\ pc = [p \in Procs |-> "idle"]
  /\ call = [p \in Procs |-> NoCall]
  /\ dirs = [d \in {} |-> 0]
  /\ ntmp = 0
  /\ nulid = 0
  /\ atexit = {}
  /\ outdir = EmptyDir
  /\ nops = 0
  /\ exited = FALSE

Init ==
  /\ namespace \in {"", "_models"}
  /\ inst \in InitInsts
  /\ \/ store = EmptyStore /\ uploaded = [k \in {} |-> 0]
     \/ /\ store = StoreAfterEarlierRun(namespace)
        /\ uploaded = [k \in {<< "C", "v1" >>} |-> Parts(EarlierModel)]
  /\ RepoStart
  /\ sd_pc = "off" /\ sd_src = Obj("C", NoAttrs) /\ sd_dst = Obj("C", NoAttrs)
  /\ sd_dir = EmptyDir /\ sd_blob = NoBlob /\ sd_err = ""

\* the steps of one caller
Step(p) ==
  \/ \E m \in Insts, v \in VersionArgs \cup {NONE} : PersistCall(p, m, v)
  \/ PersistSerialize(p)
  \/ PersistTar(p)
  \/ PersistSetBytes(p)
  \/ PersistSetObj(p)
  \/ PersistFinally(p)
  \/ \E m \in Insts : \E v \in VersionsOf(m) \cup {NONE} : LoadCall(p, m, v)
  \/ LoadGetObj(p)
  \/ LoadGetBytes(p)
  \/ LoadDeserialize(p)
  \/ LoadFinally(p)
  \/ \E a \in Insts \cup Classes : \E v \in VersionsOf(a) : Delete(p, a, v)
  \/ \E a \in Insts \cup Classes : \E v \in VersionsOf(a) : Download(p, a, v)

\* one caller: every call runs to its end before the next starts
Next == Step(1) \/ Exit

Spec == Init /\ [][Next]_vars

\* a process that only loads, from a store that earlier runs filled with
\* v1 (a sklearn submodel) and v2 (a keras submodel) of class C
LaterModel == Obj("C", A3)
StoreAfterTwoRuns(ns) ==
  set_obj(set_bytes(StoreAfterEarlierRun(ns), _get_key(ns, LaterModel, "v2"),
                    ArchiveOf(LaterModel)),
          _get_key(ns, LaterModel, LATEST), "v2")
InitLoads ==
  /\ namespace = "_models"
  /\ inst \in InitInsts
  /\ \/ store = EmptyStore /\ uploaded = [k \in {} |-> 0]
     \/ /\ store = StoreAfterTwoRuns(namespace)
        /\ uploaded = [k \in {<< "C", "v1" >>, << "C", "v2" >>} |->
                         IF k[2] = "v1" THEN Parts(EarlierModel) ELSE Parts(LaterModel)]
  /\ RepoStart
  /\ sd_pc = "off" /\ sd_src = Obj("C", NoAttrs) /\ sd_dst = Obj("C", NoAttrs)
  /\ sd_dir = EmptyDir /\ sd_blob = NoBlob /\ sd_err = ""
StepLoads(p) ==
  \/ \E m \in Insts : \E v \in {"v1", "v2", NONE} : LoadCall(p, m, v)
  \/ LoadGetObj(p)
  \/ LoadGetBytes(p)
  \/ LoadDeserialize(p)
  \/ LoadFinally(p)
NextLoads == StepLoads(1) \/ Exit
\* every call that started runs on to its end, and the interpreter quits
\* once the caller has stopped calling
SpecLoads ==
  InitLoads /\ [][NextLoads]_vars /\ WF_vars(StepLoads(1)) /\ WF_vars(Exit)

(***************************************************************************)
(* Two callers on one repository: their calls interleave at the            *)
(* granularity of single storage calls                                     *)
(***************************************************************************)
\* the model each caller holds: two instances of one class
ModelOfCaller(p) == IF p = 1 THEN "m1" ELSE "m2"
ConcInsts == [m \in Insts |-> CASE m = "m1" -> Obj("C", A1)
                               [] m = "m2" -> Obj("C", A3)
                               [] OTHER -> Obj("D", A2)]
InitConc ==
  /\ namespace = "_models"
  /\ inst = ConcInsts
  /\ \/ store = EmptyStore /\ uploaded = [k \in {} |-> 0]
     \/ /\ store = StoreAfterEarlierRun(namespace)
        /\ uploaded = [k \in {<< "C", "v1" >>} |-> Parts(EarlierModel)]
  /\ RepoStart
  /\ sd_pc = "off" /\ sd_src = Obj("C", NoAttrs) /\ sd_dst = Obj("C", NoAttrs)
  /\ sd_dir = EmptyDir /\ sd_blob = NoBlob /\ sd_err = ""

\* the steps of the persist and load calls of one caller
PersistSteps(p) ==
  \/ PersistSerialize(p)
  \/ PersistTar(p)
  \/ PersistSetBytes(p)
  \/ PersistSetObj(p)
  \/ PersistFinally(p)
LoadSteps(p) ==
  \/ LoadGetObj(p)
  \/ LoadGetBytes(p)
  \/ LoadDeserialize(p)
  \/ LoadFinally(p)

\* persists and loads under versions that are not the alias token
StepConc(p) ==
  \/ \E v \in {"v1", "v2", NONE} : PersistCall(p, ModelOfCaller(p), v)
  \/ PersistSteps(p)
  \/ \E v \in {"v1", NONE} : LoadCall(p, ModelOfCaller(p), v)
  \/ LoadSteps(p)

NextConc == StepConc(1) \/ StepConc(2)

SpecConc == InitConc /\ [][NextConc]_vars

\* racing persists under any version a caller can pass
StepRace(p) ==
  \/ \E v \in {"v1", LATEST} : PersistCall(p, ModelOfCaller(p), v)
  \/ PersistSteps(p)

NextRace == StepRace(1) \/ StepRace(2)

SpecRace == InitConc /\ [][NextRace]_vars

(***************************************************************************)
(* The SerDe round trip: serialize into a fresh directory, archive it,     *)
(* extract it into another fresh directory, deserialize into sd_dst.       *)
(***************************************************************************)
InitSerDe ==
  /\ sd_pc = "init"
  /\ sd_src \in {Obj("C", a) : a \in SourceAttrs}
  /\ sd_dst \in {Obj("C", a) : a \in TargetAttrs}
  /\ sd_dir = EmptyDir
  /\ sd_blob = NoBlob
  /\ sd_err = ""
  /\ namespace = "" /\ inst = [m \in Insts |-> Obj(ClassOfInst(m), NoAttrs)]
  /\ store = EmptyStore /\ uploaded = [k \in {} |-> 0]
  /\ RepoStart

SdSerialize ==
  /\ sd_pc = "init"
  /\ LET r == serialize(sd_src) IN
     /\ sd_dir' = ApplyWrites(EmptyDir, r.writes)
     /\ sd_err' = r.err
     /\ sd_pc' = IF r.ok THEN "serialized" ELSE "rejected"
  /\ UNCHANGED << sd_src, sd_dst, sd_blob >>
  /\ UNCHANGED repoVars

SdArchive ==
  /\ sd_pc = "serialized"
  /\ sd_blob' = _tar_create(sd_dir)
  /\ sd_dir' = _tar_extract(_tar_create(sd_dir), EmptyDir)
  /\ sd_pc' = "archived"
  /\ UNCHANGED << sd_src, sd_dst, sd_err >>
  /\ UNCHANGED repoVars

SdDeserialize ==
  /\ sd_pc = "archived"
  /\ LET r == deserialize(sd_dst, sd_dir) IN
     /\ sd_dst' = r.obj
     /\ sd_err' = r.err
     /\ sd_pc' = IF r.ok THEN "loaded" ELSE "load_failed"
  /\ UNCHANGED << sd_src, sd_dir, sd_blob >>
  /\ UNCHANGED repoVars

NextSerDe == SdSerialize \/ SdArchive \/ SdDeserialize

SpecSerDe == InitSerDe /\ [][NextSerDe]_vars

(***************************************************************************)
(* Properties of the SerDe round trip                                      *)
(***************************************************************************)
Submodel(obj) == obj.attrs["model"]
\* the target has no submodel state yet
NoSubmodelState(obj) == ~HasAttr(obj, "model") \/ Submodel(obj) = PyNone
\* the parts the source has are found, equal, in the target
PartsEqual(src, dst) ==
  \A a \in {"stats", "metrics", "model"} :
     HasAttr(src, a) => (HasAttr(dst, a) /\ dst.attrs[a] = src.attrs[a])

\* a single sub-artifact of a known kind
SingleKnown(obj) ==
  HasAttr(obj, "model") /\ Submodel(obj).rt \in {"sklearn", "keras"}
\* a fresh instance of the type of src: no submodel state yet, or the
\* untrained single sub-artifact its constructor built
FreshSingle(dst, src) ==
  \/ NoSubmodelState(dst)
  \/ (Submodel(dst) \in {Sk(0), Keras(0)} /\ Submodel(dst).rt = Submodel(src).rt)

\* C2 as claimed: for every composite with a single sub-artifact of a known
\* kind, loading what was persisted into a fresh instance of the same type
\* succeeds and leaves it with equal stats, metrics and sub-artifact.
C2_AsClaimed ==
  [][(SdDeserialize /\ SingleKnown(sd_src) /\ FreshSingle(sd_dst, sd_src))
       => (sd_pc' = "loaded" /\ PartsEqual(sd_src, sd_dst'))]_vars

\* C2 amended: the round trip holds for a single sub-artifact of a known
\* kind provided that, when the kind is tensorflow-keras, the fresh instance
\* already holds a keras model (only weights are stored, and they are
\* loaded into the existing model).
C2_RoundTrip ==
  [][(/\ SdDeserialize /\ SingleKnown(sd_src) /\ FreshSingle(sd_dst, sd_src)
      /\ (Submodel(sd_src).rt = "keras" =>
            (HasAttr(sd_dst, "model") /\ Submodel(sd_dst).rt = "keras")))
       => (sd_pc' = "loaded" /\ PartsEqual(sd_src, sd_dst'))]_vars

\* a round trip of a keras sub-artifact with stats and metrics has completed
\* into an instance that held an untrained keras model
C2_Witness ==
  /\ sd_pc = "loaded" /\ SingleKnown(sd_src) /\ Submodel(sd_src) = Keras(2)
  /\ HasAttr(sd_src, "stats") /\ HasAttr(sd_src, "metrics")
  /\ sd_dst.attrs["stats"] = sd_src.attrs["stats"]
  /\ Submodel(sd_dst) = Keras(2)

\* submodels are an ordered list of length 3 / a named map with keys a and b
List3(obj) ==
  HasAttr(obj, "model") /\ Submodel(obj).rt = "list" /\ Len(Submodel(obj).items) = 3
MapAB(obj) ==
  HasAttr(obj, "model") /\ Submodel(obj).rt = "dict"
    /\ DictKeys(Submodel(obj)) = {"a", "b"}
\* the instance loaded into: no submodel state yet, or submodels of the
\* shape that was persisted
SameShapeOrNone(dst, src) ==
  \/ NoSubmodelState(dst)
  \/ (List3(src) /\ List3(dst))
  \/ (MapAB(src) /\ MapAB(dst))
\* the loaded submodels: same length and order / same keys and values
ShapePreserved(src, dst) ==
  /\ HasAttr(dst, "model")
  /\ Submodel(dst).rt = Submodel(src).rt
  /\ List3(src) =>
       /\ Len(Submodel(dst).items) = 3
       /\ \A i \in 1..3 : Submodel(dst).items[i] = Submodel(src).items[i]
  /\ MapAB(src) =>
       /\ DictKeys(Submodel(dst)) = {"a", "b"}
       /\ Len(Submodel(dst).items) = 2
       /\ \A k \in {"a", "b"} : DictGet(Submodel(dst), k) = DictGet(Submodel(src), k)
\* every keras sub-artifact persisted meets a keras model at its place
KerasInPlace(dst, src) ==
  /\ List3(src) =>
       \A i \in 1..3 : Submodel(src).items[i].rt = "keras" =>
          (List3(dst) /\ Submodel(dst).items[i].rt = "keras")
  /\ MapAB(src) =>
       \A k \in {"a", "b"} : DictGet(Submodel(src), k).rt = "keras" =>
          (MapAB(dst) /\ DictGet(Submodel(dst), k).rt = "keras")

\* C3 as claimed: a list of 3 submodels, or a map with keys a and b, that
\* was persisted loads back as a list of 3 in the same order, or as a map
\* with exactly those keys and the values persisted under them.
C3_AsClaimed ==
  [][(SdDeserialize /\ (List3(sd_src) \/ MapAB(sd_src))
        /\ SameShapeOrNone(sd_dst, sd_src))
       => (sd_pc' = "loaded" /\ ShapePreserved(sd_src, sd_dst'))]_vars

\* C3 amended: shape, order and keys are preserved provided every
\* tensorflow-keras entry finds a keras model at the same position or key of
\* the instance loaded into.
C3_ShapePreservation ==
  [][(SdDeserialize /\ (List3(sd_src) \/ MapAB(sd_src))
        /\ SameShapeOrNone(sd_dst, sd_src) /\ KerasInPlace(sd_dst, sd_src))
       => (sd_pc' = "loaded" /\ ShapePreserved(sd_src, sd_dst'))]_vars

\* a list of three different sub-artifacts has been loaded back in order
C3_Witness ==
  /\ sd_pc = "loaded" /\ List3(sd_src)
  /\ Submodel(sd_src).items = << Sk(1), Keras(2), Sk(2) >>
  /\ Submodel(sd_dst).items = << Sk(1), Keras(2), Sk(2) >>

\* the composite has no stats, no metrics and a None submodel
NoneOnly(obj) == DOMAIN obj.attrs = {"model"} /\ Submodel(obj) = PyNone
CustomManifest ==
  [models |-> PyList(<< [model_type |-> "custom", model_path |-> "model"] >>)]

\* C4: a composite with no stats, no metrics and a None submodel serializes
\* without error, its manifest is exactly models = [{custom, model}], and
\* loading it sets the submodel to None.
C4_AbsenceHandling ==
  NoneOnly(sd_src) =>
    /\ sd_pc \notin {"rejected", "load_failed"}
    /\ sd_pc \in {"serialized", "archived", "loaded"} =>
         YamlLoad(sd_dir[METAINFO_FILE]) = CustomManifest
    /\ sd_pc = "archived" => YamlLoad(sd_blob.files[METAINFO_FILE]) = CustomManifest
    /\ sd_pc = "loaded" => (HasAttr(sd_dst, "model") /\ Submodel(sd_dst) = PyNone)

\* the None composite has been loaded into an instance that has stats
C4_Witness ==
  /\ NoneOnly(sd_src) /\ sd_pc = "loaded"
  /\ Submodel(sd_dst) = PyNone /\ HasAttr(sd_dst, "stats")

\* the composite holds a sub-artifact of no registered kind
IsUnknown(x) == _get_model_type(x) = "NoType"
ContainsUnknown(obj) ==
  /\ HasAttr(obj, "model")
  /\ LET m == Submodel(obj) IN
     CASE m.rt = "list" -> \E i \in 1..Len(m.items) : m.items[i].rt = "object"
       [] m.rt = "dict" -> \E i \in 1..Len(m.items) : m.items[i].v.rt = "object"
       [] OTHER -> m.rt = "object"

\* C6: serializing a composite that holds a sub-artifact of no registered
\* kind raises the unsupported-kind error and writes no manifest.
C6_UnknownKind ==
  (ContainsUnknown(sd_src) /\ sd_pc # "init") =>
    /\ sd_pc = "rejected"
    /\ sd_err = "ValueError: Unsupported model!!!"
    /\ METAINFO_FILE \notin DOMAIN sd_dir

\* rejected after files were written for stats and an earlier list element
C6_Witness ==
  /\ sd_pc = "rejected" /\ ContainsUnknown(sd_src)
  /\ STATS_PATH \in DOMAIN sd_dir /\ "model_0.joblib" \in DOMAIN sd_dir

\* every path a manifest document refers to
ManifestPaths(doc) ==
  {doc[k].val : k \in DOMAIN doc \cap {"stats", "metrics"}} \cup
  (IF "models" \notin DOMAIN doc THEN {}
   ELSE IF doc["models"].rt = "list"
     THEN {doc["models"].items[i].model_path : i \in 1..Len(doc["models"].items)}
     ELSE {doc["models"].items[i].v.model_path : i \in 1..Len(doc["models"].items)})

\* C15: after a successful serialize of any composite, every path the
\* manifest refers to (stats, metrics and the model_path of every models
\* entry) is a file or directory of the serialized directory, and of the
\* archive made from it.
C15_AsClaimed ==
  /\ sd_pc \in {"serialized", "archived"} =>
        ManifestPaths(YamlLoad(sd_dir[METAINFO_FILE])) \subseteq DOMAIN sd_dir
  /\ sd_pc = "archived" =>
        ManifestPaths(YamlLoad(sd_blob.files[METAINFO_FILE])) \subseteq DOMAIN sd_blob.files

\* the models field of the manifest in the directory deserialize reads
ManifestModels == YamlLoad(sd_dir[METAINFO_FILE])["models"]
HasManifestModels ==
  /\ METAINFO_FILE \in DOMAIN sd_dir
  /\ "models" \in DOMAIN YamlLoad(sd_dir[METAINFO_FILE])
\* the target's existing submodel state is absent, or a list shorter than n
ListAbsentOrShorter(dst, n) ==
  \/ NoSubmodelState(dst)
  \/ Submodel(dst).rt = "list" /\ Len(Submodel(dst).items) < n
\* the target's existing submodel state is absent, or a map lacking some key
MapAbsentOrLacking(dst, keys) ==
  \/ NoSubmodelState(dst)
  \/ Submodel(dst).rt = "dict" /\ ~(keys \subseteq DictKeys(Submodel(dst)))

\* C16: deserialize pads missing submodel state: with a manifest list of
\* length N > 1 and an existing list that is absent or shorter than N the
\* result is a list of length N; with a manifest mapping and an existing map
\* that is absent or lacks a manifest key the result is a map with exactly
\* the manifest's keys; no index or key lookup error is raised.
C16_AsClaimed ==
  [][(SdDeserialize /\ HasManifestModels) =>
       /\ (/\ ManifestModels.rt = "list" /\ Len(ManifestModels.items) > 1
           /\ ListAbsentOrShorter(sd_dst, Len(ManifestModels.items))) =>
             /\ sd_err' \notin {"IndexError", "KeyError", "TypeError"}
             /\ sd_pc' = "loaded"
             /\ Submodel(sd_dst').rt = "list"
             /\ Len(Submodel(sd_dst').items) = Len(ManifestModels.items)
       /\ (/\ ManifestModels.rt = "dict"
           /\ MapAbsentOrLacking(sd_dst, DictKeys(ManifestModels))) =>
             /\ sd_err' \notin {"IndexError", "KeyError", "TypeError"}
             /\ sd_pc' = "loaded"
             /\ Submodel(sd_dst').rt = "dict"
             /\ DictKeys(Submodel(sd_dst')) = DictKeys(ManifestModels)]_vars

\* the shapes of submodels: a single value, an ordered list, a named map
ShapeOf(m) == IF m.rt \in {"list", "dict"} THEN m.rt ELSE "single"
\* a fresh instance of the type of src: no submodel state yet, or the
\* untrained submodels its constructor built, in the shape of src
FreshFor(dst, src) ==
  \/ NoSubmodelState(dst)
  \/ /\ ShapeOf(Submodel(dst)) = ShapeOf(Submodel(src))
     /\ Submodel(src).rt = "list" => Len(Submodel(dst).items) = Len(Submodel(src).items)
     /\ Submodel(src).rt = "dict" => DictKeys(Submodel(dst)) = DictKeys(Submodel(src))
\* dst has the shape of src, and the entries of known kinds at their places
SameShape(src, dst) ==
  /\ HasAttr(dst, "model")
  /\ ShapeOf(Submodel(dst)) = ShapeOf(Submodel(src))
  /\ Submodel(src).rt = "list" =>
       /\ Len(Submodel(dst).items) = Len(Submodel(src).items)
       /\ \A i \in 1..Len(Submodel(src).items) :
            Submodel(src).items[i].rt \in {"sklearn", "keras"} =>
              Submodel(dst).items[i] = Submodel(src).items[i]
  /\ Submodel(src).rt = "dict" =>
       /\ DictKeys(Submodel(dst)) = DictKeys(Submodel(src))
       /\ \A k \in DictKeys(Submodel(src)) :
            DictGet(Submodel(src), k).rt \in {"sklearn", "keras"} =>
              DictGet(Submodel(dst), k) = DictGet(Submodel(src), k)
\* every keras sub-artifact of src meets a keras model at its place in dst
KerasMeetsModel(dst, src) ==
  LET s == Submodel(src) IN
  CASE s.rt = "list" ->
         \A i \in 1..Len(s.items) : s.items[i].rt = "keras" =>
           /\ HasAttr(dst, "model") /\ Submodel(dst).rt = "list"
           /\ i <= Len(Submodel(dst).items) /\ Submodel(dst).items[i].rt = "keras"
    [] s.rt = "dict" ->
         \A k \in DictKeys(s) : DictGet(s, k).rt = "keras" =>
           /\ HasAttr(dst, "model") /\ Submodel(dst).rt = "dict"
           /\ DictHas(Submodel(dst), k) /\ DictGet(Submodel(dst), k).rt = "keras"
    [] OTHER -> s.rt = "keras" => (HasAttr(dst, "model") /\ Submodel(dst).rt = "keras")

PersistPcs == {"p_serialize", "p_tar", "p_set_bytes", "p_set_obj", "p_finally"}
\* the call of p has returned (err = "") or raised
Returned(p, op) == pc[p] = "done" /\ call[p].op = op
Succeeded(p, op) == Returned(p, op) /\ call[p].err = ""
\* failures of the storage or of the local file system
IOErrors == {"BackingStoreFailure", "OSError", "UnboundLocalError"}
\* the model object of the call of p, and what was last stored for a version
ModelOf(p) == inst[call[p].arg]
StoredParts(p, version) == uploaded[<< ModelOf(p).cls, version >>]
HasStoredParts(p, version) == << ModelOf(p).cls, version >> \in DOMAIN uploaded
\* the model holds the parts that were stored
Holds(obj, parts) ==
  \A a \in DOMAIN parts : HasAttr(obj, a) /\ obj.attrs[a] = parts[a]

\* a successful persist under a version other than the alias token leaves
\* the alias naming that version and the archive of the model under its key
C1_PersistMovesAlias ==
  \A p \in Procs :
    (Succeeded(p, "persist") /\ call[p].ver # LATEST) =>
      /\ get_obj(store, KeyFor(p, LATEST)) = [ok |-> TRUE, val |-> call[p].ver]
      /\ get_bytes(store, KeyFor(p, call[p].ver)) = [ok |-> TRUE, val |-> ArchiveOf(ModelOf(p))]
      /\ HasStoredParts(p, call[p].ver)
      /\ StoredParts(p, call[p].ver) = Parts(ModelOf(p))
\* a load that returned resolved an omitted version through the alias and
\* left the model with the parts stored under the version it resolved
C1_LoadYields ==
  \A p \in Procs :
    Succeeded(p, "load") =>
      /\ call[p].version = NONE =>
           get_obj(store, KeyFor(p, LATEST)) = [ok |-> TRUE, val |-> call[p].ver]
      /\ call[p].version # NONE => call[p].ver = call[p].version
      /\ HasStoredParts(p, call[p].ver)
      /\ Holds(ModelOf(p), StoredParts(p, call[p].ver))
      /\ ModelOf(p).attrs["version"] = call[p].ver
\* a load raises only when the storage or the file system fails, when the
\* alias or the blob is not there, or when weights meet no keras model
C1_LoadRaisesOnly ==
  \A p \in Procs :
    (Returned(p, "load") /\ call[p].err # "") =>
      \/ call[p].err \in IOErrors
      \/ /\ call[p].err = "NoVersionFound"
         /\ call[p].version = NONE /\ ~get_obj(store, KeyFor(p, LATEST)).ok
      \/ /\ call[p].err = "NotFound"
         /\ ~get_bytes(store, KeyFor(p, call[p].ver)).ok
      \/ /\ call[p].err = "ReadError" /\ call[p].ver = LATEST
      \/ /\ call[p].err = "AttributeError: load_weights"
         /\ StoredParts(p, call[p].ver)["model"].rt = "keras"
         /\ (HasAttr(ModelOf(p), "model") => Submodel(ModelOf(p)).rt # "keras")
\* no step of a persist touches the entry of another version
C1_OtherVersionsKept ==
  \A p \in Procs :
    (pc[p] \in PersistPcs /\ pc'[p] # pc[p]) =>
      \A k \in DOMAIN store \ {KeyFor(p, call[p].ver), KeyFor(p, LATEST)} :
         k \in DOMAIN store' /\ store'[k] = store[k]

\* C1: after persist(model, "v1") a load with no version resolves to v1 and
\* yields its content; after persist(model, "v2") it resolves to v2 and
\* yields that content, while load(model, "v1") still yields the content of
\* v1, whose blob persisting v2 neither overwrote nor removed.
C1_AliasSemantics ==
  /\ [](C1_PersistMovesAlias /\ C1_LoadYields /\ C1_LoadRaisesOnly)
  /\ [][C1_OtherVersionsKept]_vars

\* load(model, "v1") returned the content of v1 while the alias names v2,
\* whose content is different
C1_Witness ==
  /\ Succeeded(1, "load") /\ call[1].version = "v1"
  /\ get_obj(store, KeyFor(1, LATEST)) = [ok |-> TRUE, val |-> "v2"]
  /\ HasStoredParts(1, "v2")
  /\ StoredParts(1, "v2") # StoredParts(1, "v1")
  /\ Holds(ModelOf(1), StoredParts(1, "v1"))

\* C5: delete(model, "latest") is rejected with an assertion error before
\* any call to the backing store: the alias and every blob stay as they were.
C5_DeleteLatestRejected ==
  [][\A p \in Procs : \A a \in Insts \cup Classes :
       Delete(p, a, LATEST) =>
         /\ store' = store
         /\ call'[p].err = "AssertionError"
         /\ call'[p].log = << >>]_vars

\* a delete of the alias token was rejected while the store held the alias
\* and the blob it names for that model
C5_Witness ==
  /\ Returned(1, "delete") /\ call[1].version = LATEST
  /\ call[1].err = "AssertionError" /\ call[1].log = << >>
  /\ get_obj(store, _get_key(namespace, ArgValue(call[1].arg), LATEST)).ok
  /\ get_bytes(store, _get_key(namespace, ArgValue(call[1].arg), "v1")).ok

\* C7: the key computed for a model instance equals the key computed for its
\* class, whatever state the instance holds: the key depends on the class
\* name, the version and the namespace only.
C7_KeyDeterminism ==
  \A m \in Insts : \A v \in VersionArgs :
    /\ _get_key(namespace, inst[m], v) = _get_key(namespace, ClassObj(inst[m].cls), v)
    /\ \A n \in Insts :
         inst[n].cls = inst[m].cls =>
           _get_key(namespace, inst[n], v) = _get_key(namespace, inst[m], v)

\* two instances of one class hold different state, one of them with a
\* recorded version whose blob is in the store under the key of the class
C7_Witness ==
  /\ inst["m1"].cls = inst["m2"].cls
  /\ HasAttr(inst["m1"], "version") /\ ~HasAttr(inst["m2"], "version")
  /\ Submodel(inst["m1"]) # Submodel(inst["m2"])
  /\ get_bytes(store, _get_key(namespace, ClassObj(inst["m1"].cls),
                               inst["m1"].attrs["version"])).ok

\* C8: the scratch directory of a persist is removed on every exit path:
\* once persist has returned or raised, no directory it created exists.
C8_PersistScratchRemoved ==
  \A d \in DOMAIN dirs :
    dirs[d].by = "persist" =>
      \E p \in Procs : pc[p] \in PersistPcs /\ call[p].tmpdir = d

\* a persist raised after its alias update failed, and its scratch
\* directory is gone
C8_Witness ==
  /\ Returned(1, "persist") /\ call[1].err = "BackingStoreFailure"
  /\ Len(call[1].log) = 2
  /\ call[1].tmpdir # 0 /\ call[1].tmpdir \notin DOMAIN dirs

\* errors persist raises before it reaches the upload of the blob
BeforeUploadErrors ==
  {"OSError", "UnboundLocalError", "ValueError: Unsupported model!!!"}
\* the entry of a key is the same before and after the step
KeepsKey(k) ==
  /\ (k \in DOMAIN store) = (k \in DOMAIN store')
  /\ k \in DOMAIN store => store'[k] = store[k]
\* the positions of the call's log that wrote to the key
WritesTo(p, k) ==
  {i \in DOMAIN call[p].log :
     call[p].log[i].key = k /\ call[p].log[i].api \in {"set_bytes", "set_obj"}}
\* the step is the successful upload of the blob by the persist of p
UploadStep(p) == pc[p] = "p_set_bytes" /\ pc'[p] = "p_set_obj"

\* C9: a persist that fails before the blob upload makes no call to the
\* store, which is left unchanged; a successful persist writes the key of
\* (model, version) exactly once, and what it writes is the complete archive.
C9_AsClaimed ==
  /\ [](\A p \in Procs :
          /\ (Returned(p, "persist") /\ call[p].err \in BeforeUploadErrors) =>
                call[p].log = << >>
          /\ Succeeded(p, "persist") =>
                Cardinality(WritesTo(p, KeyFor(p, call[p].ver))) = 1)
  /\ [][\A p \in Procs :
          /\ (pc[p] \in {"p_serialize", "p_tar", "p_finally"} /\ pc'[p] # pc[p]) =>
                store' = store
          /\ (\E m \in Insts : \E v \in VersionsOf(m) : PersistCall(p, m, v)) =>
                store' = store
          /\ UploadStep(p) =>
                /\ store'[KeyFor(p, call[p].ver)] = ArchiveOf(ModelOf(p))
                /\ METAINFO_FILE \in DOMAIN store'[KeyFor(p, call[p].ver)].files]_vars

\* the archive of the model is in the store under the key of (model, v), and
\* deserializing it into the model raises nothing and yields its parts
BlobLoadable(p) ==
  LET r == get_bytes(store, KeyFor(p, call[p].ver))
  IN /\ r = [ok |-> TRUE, val |-> ArchiveOf(ModelOf(p))]
     /\ LET d == deserialize(ModelOf(p), _tar_extract(r.val, EmptyDir))
        IN d.ok /\ Holds(d.obj, Parts(ModelOf(p)))
\* the persist of p raised at its alias update, after its upload
AliasUpdateFailed(p) ==
  /\ pc[p] \in {"p_finally", "done"} /\ call[p].op = "persist"
  /\ call[p].err = "BackingStoreFailure" /\ Len(call[p].log) = 2
\* the step is the alias update of the persist of p, failing
AliasFailStep(p) ==
  pc[p] = "p_set_obj" /\ pc'[p] # pc[p] /\ call'[p].err = "BackingStoreFailure"

\* C10, as stated: when persist(model, v) fails after the upload and before
\* the alias update, the blob for v is in the store and loadable, the alias
\* holds what it held before the call, and the alias does not hold v.
C10_AsClaimed ==
  /\ [](\A p \in Procs :
          AliasUpdateFailed(p) =>
            /\ BlobLoadable(p)
            /\ get_obj(store, KeyFor(p, LATEST)) # [ok |-> TRUE, val |-> call[p].ver])
  /\ [][\A p \in Procs :
          /\ UploadStep(p) => KeepsKey(KeyFor(p, LATEST))
          /\ AliasFailStep(p) => store' = store]_vars

\* C10: when persist(model, v) fails after the upload and before the alias
\* update, the store differs from the store before the call at key(model, v)
\* only, which holds the archive of the model, loadable by explicit version;
\* an alias under another key holds what it held before the call, which is v
\* only when it named v already.
C10_PartialFailure ==
  /\ [](\A p \in Procs : AliasUpdateFailed(p) => BlobLoadable(p))
  /\ [][\A p \in Procs :
          /\ UploadStep(p) =>
                /\ \A k \in (DOMAIN store \cup DOMAIN store') \ {KeyFor(p, call[p].ver)} :
                     KeepsKey(k)
                /\ store'[KeyFor(p, call[p].ver)] = ArchiveOf(ModelOf(p))
          /\ AliasFailStep(p) => store' = store]_vars

\* a persist of v2 raised at its alias update: the blob of v2 is in the
\* store and the alias still names v1
C10_Witness ==
  /\ Returned(1, "persist") /\ AliasUpdateFailed(1) /\ call[1].ver = "v2"
  /\ BlobLoadable(1)
  /\ get_obj(store, KeyFor(1, LATEST)) = [ok |-> TRUE, val |-> "v1"]

\* the key a call computes from its own arguments
CallKey(c, version) == _get_key(namespace, ArgValue(c.arg), version)
\* the step is a whole delete call of p that returned without raising
DeleteDone(p) ==
  /\ CanCall(p) /\ nops' = nops + 1
  /\ call'[p].op = "delete" /\ call'[p].err = ""
\* a load with no version that met an alias whose blob is not in the store
MetDanglingAlias(p) ==
  /\ Returned(p, "load") /\ call[p].version = NONE
  /\ get_obj(store, KeyFor(p, LATEST)).ok
  /\ ~get_bytes(store, KeyFor(p, get_obj(store, KeyFor(p, LATEST)).val)).ok

\* C11: delete(model, v) with v other than the alias token removes the one
\* entry key(model, v) and leaves every other entry as it was, the alias
\* included; a later load with no version resolves the dangling alias to v
\* and fails when it fetches the blob.
C11_DeleteFrame ==
  /\ [][\A p \in Procs :
          DeleteDone(p) =>
            LET key == CallKey(call'[p], call'[p].version)
            IN /\ call'[p].version # LATEST
               /\ call'[p].log = << [api |-> "delete", key |-> key] >>
               /\ key \notin DOMAIN store'
               /\ \A k \in (DOMAIN store \cup DOMAIN store') \ {key} : KeepsKey(k)]_vars
  /\ [](\A p \in Procs :
          MetDanglingAlias(p) =>
            /\ call[p].err \in IOErrors \cup {"NotFound"}
            /\ call[p].err = "NotFound" =>
                 /\ call[p].ver = get_obj(store, KeyFor(p, LATEST)).val
                 /\ call[p].log = << [api |-> "get_obj", key |-> KeyFor(p, LATEST)],
                                     [api |-> "get_bytes", key |-> KeyFor(p, call[p].ver)] >>)

\* the blob of v1 was deleted while the alias names v1, and a load with no
\* version resolved to v1 and failed on the fetch
C11_Witness ==
  /\ MetDanglingAlias(1) /\ call[1].err = "NotFound" /\ call[1].ver = "v1"
  /\ get_obj(store, KeyFor(1, LATEST)) = [ok |-> TRUE, val |-> "v1"]
  /\ ~HasStoredParts(1, "v1")

\* the step is the alias lookup of the load of p
LookupStep(p) == pc[p] = "l_get_obj" /\ pc'[p] # pc[p]
\* the storage calls a load made so far, by name
Apis(c) == [i \in DOMAIN c.log |-> c.log[i].api]

\* C12: a load with the version omitted reads key(model, "latest") first;
\* when that entry is absent it raises the no-version-found error, fetches no
\* blob, allocates nothing and leaves the model as it was.
C12_NoVersionFound ==
  /\ [](\A p \in Procs :
          (call[p].op = "load" /\ pc[p] # "l_get_obj") =>
            /\ call[p].version = NONE =>
                 /\ Len(call[p].log) >= 1
                 /\ call[p].log[1] = [api |-> "get_obj", key |-> KeyFor(p, LATEST)]
            /\ call[p].version # NONE =>
                 \A i \in DOMAIN call[p].log : call[p].log[i].api # "get_obj")
  /\ [][\A p \in Procs :
          (LookupStep(p) /\ KeyFor(p, LATEST) \notin DOMAIN store) =>
            /\ pc'[p] = "done"
            /\ call'[p].err = "NoVersionFound"
            /\ Apis(call'[p]) = << "get_obj" >>
            /\ call'[p].tmpdir = 0
            /\ UNCHANGED << store, inst, dirs, atexit >>]_vars

\* a load with no version of a model type never persisted raised the
\* no-version-found error after one lookup, while the store holds the alias
\* and a blob of another model type
C12_Witness ==
  /\ Returned(1, "load") /\ call[1].version = NONE
  /\ call[1].err = "NoVersionFound" /\ Apis(call[1]) = << "get_obj" >>
  /\ KeyFor(1, LATEST) \notin DOMAIN store
  /\ Cardinality(DOMAIN store) = 2

\* both callers' persist calls have returned without raising
BothPersisted == \A p \in Procs : Succeeded(p, "persist")
\* the step is the alias update of the persist of p, succeeding
AliasPutStep(p) ==
  pc[p] = "p_set_obj" /\ pc'[p] # pc[p] /\ call'[p].err = ""
\* any other step of the persist of p
OtherPersistStep(p) ==
  pc[p] \in PersistPcs /\ pc'[p] # pc[p] /\ ~AliasPutStep(p)

\* C13: two persist calls of one model type that interleave at single
\* storage calls and both complete leave, when they used the same version,
\* the complete archive of one of the two under key(model, version), and
\* under the alias the version of the call whose alias update came last,
\* which is one of the two versions.
C13_AsClaimed ==
  /\ [](BothPersisted =>
          /\ call[1].ver = call[2].ver =>
               get_bytes(store, KeyFor(1, call[1].ver)).val \in
                 {ArchiveOf(ModelOf(1)), ArchiveOf(ModelOf(2))}
          /\ get_obj(store, KeyFor(1, LATEST)).ok
          /\ get_obj(store, KeyFor(1, LATEST)).val \in {call[1].ver, call[2].ver})
  /\ [][\A p \in Procs :
          /\ AliasPutStep(p) =>
                get_obj(store', KeyFor(p, LATEST)) = [ok |-> TRUE, val |-> call[p].ver]
          /\ OtherPersistStep(p) => KeepsKey(KeyFor(p, LATEST))]_vars

LoadPcs == {"l_get_bytes", "l_deserialize", "l_finally"}
\* some scratch directory of a load exists
LoadDirLeft == \E d \in DOMAIN dirs : dirs[d].by = "load"

\* C14: the scratch directory of a load exists for as long as the call runs,
\* its deserialize step included; when the call ends, by return or by any
\* exception, the removal is registered with the interpreter's exit, and the
\* exit removes the directory.
C14_DeferredCleanup ==
  /\ [](\A p \in Procs :
          (call[p].op = "load" /\ call[p].tmpdir # 0) =>
            /\ pc[p] \in LoadPcs =>
                 /\ call[p].tmpdir \in DOMAIN dirs
                 /\ dirs[call[p].tmpdir].by = "load"
            /\ pc[p] = "done" => call[p].tmpdir \in atexit
            /\ (pc[p] = "done" /\ ~exited) => call[p].tmpdir \in DOMAIN dirs)
  /\ [](\A d \in DOMAIN dirs :
          dirs[d].by = "load" =>
            \/ d \in atexit
            \/ \E p \in Procs : pc[p] \in LoadPcs /\ call[p].tmpdir = d)
  /\ [](exited => ~LoadDirLeft)
  /\ (LoadDirLeft ~> ~LoadDirLeft)

\* the interpreter has quit after a load whose deserialize raised, and the
\* scratch directory of that load is gone
C14_Witness ==
  /\ exited /\ Returned(1, "load")
  /\ call[1].err = "AttributeError: load_weights"
  /\ call[1].tmpdir \in atexit /\ call[1].tmpdir \notin DOMAIN dirs

\* the alias keys of the model types
AliasKeys == {_get_key(namespace, ClassObj(c), LATEST) : c \in Classes}

\* C18: after any sequence of persist, load, delete and download calls the
\* alias key of a model type is absent or holds a version string; no
\* operation stores an archive under it, none removes it, and it is there
\* once a persist of the model type has succeeded.
C18_AsClaimed ==
  /\ [](\A k \in AliasKeys : k \in DOMAIN store => store[k].fmt = "obj")
  /\ [](\A p \in Procs : Succeeded(p, "persist") => KeyFor(p, LATEST) \in DOMAIN store)
  /\ [][\A k \in AliasKeys : k \in DOMAIN store => k \in DOMAIN store']_vars

\* the alias of the class names a version whose blob is in the store
AliasHasBlob(c) ==
  LET a == get_obj(store, _get_key(namespace, ClassObj(c), LATEST))
      b == get_bytes(store, _get_key(namespace, ClassObj(c), a.val))
  IN a.ok => (b.ok /\ IsArchive(b.val))

\* C19: in every state of every interleaving of persist and load calls, with
\* no delete and no version "latest", an alias that is present names a
\* version whose blob is present; a load with no version never fails on a
\* missing blob, also while a persist is in flight or has failed midway.
C19_AliasImpliesBlob ==
  /\ \A c \in Classes : AliasHasBlob(c)
  /\ \A p \in Procs :
       (call[p].op = "load" /\ call[p].version = NONE) =>
         call[p].err \notin {"NotFound", "ReadError"}

\* a load with no version returned v1 while the other caller's persist of
\* v2 has uploaded its blob and not yet updated the alias
C19_Witness ==
  /\ pc[1] = "p_set_obj" /\ call[1].ver = "v2"
  /\ get_bytes(store, KeyFor(1, "v2")).ok
  /\ Succeeded(2, "load") /\ call[2].version = NONE /\ call[2].ver = "v1"

\* the version recorded on a model, NONE when it has none
VersionOf(obj) == IF HasAttr(obj, "version") THEN obj.attrs["version"] ELSE NONE
\* the step is the deserialize step of the load of p, raising nothing
DeserializedStep(p) ==
  pc[p] = "l_deserialize" /\ pc'[p] # pc[p] /\ call'[p].err = ""

\* C20: the version recorded on a model changes only in the step of persist
\* that follows the successful upload and alias update, and in the step of
\* load in which deserialize succeeded, to the version of that call; nothing
\* is raised after that step, so a persist or load that fails leaves the
\* recorded version as it was before the call.
C20_VersionOnSuccess ==
  /\ [][\A m \in Insts :
          VersionOf(inst'[m]) # VersionOf(inst[m]) =>
            \E p \in Procs :
              /\ call[p].arg = m
              /\ AliasPutStep(p) \/ DeserializedStep(p)
              /\ call[p].op = "persist" => Apis(call'[p]) = << "set_bytes", "set_obj" >>
              /\ VersionOf(inst'[m]) = call[p].ver]_vars
  /\ [][\A p \in Procs :
          /\ (AliasPutStep(p) \/ DeserializedStep(p)) =>
                VersionOf(inst'[call[p].arg]) = call[p].ver
          /\ (pc[p] \in {"p_finally", "l_finally"} /\ call[p].err = "") =>
                call'[p].err = ""]_vars

\* a persist of v2 raised at its alias update and the model still records
\* v1, the version of its earlier persist
C20_Witness ==
  /\ Returned(1, "persist") /\ AliasUpdateFailed(1) /\ call[1].ver = "v2"
  /\ VersionOf(ModelOf(1)) = "v1"
  /\ call[1].arg = "m1"

====
